---- MODULE Spec2Model ----
(***************************************************************************)
(* The seccomp filter database (db.h, db.c): a sorted list of syscall      *)
(* entries, each owning a tree of argument-chain nodes, and the merge of   *)
(* a new rule into it by db_add_syscall.                                   *)
(*                                                                         *)
(* Memory is modelled explicitly.  A tree node lives in a cell of `heap`   *)
(* and pointers are cell numbers (NULL is 0).  The syscall list is the     *)
(* sequence of entries reached from db->syscalls by following ->next.      *)
(* Addresses themselves are not observable by the program, so after each   *)
(* call the reachable cells are renumbered in traversal order; a cell      *)
(* that was freed while a reachable node still points at it stays in the   *)
(* heap as a "freed" cell (a dangling pointer).                            *)
(*                                                                         *)
(* A read or write through a freed or NULL pointer is undefined behaviour: *)
(* the call then ends in the outcome "UB", with the database left either   *)
(* as it was before the call or as it was at the fault, and the process    *)
(* is not assumed to run any further.                                      *)
(***************************************************************************)
EXTENDS Integers, Sequences, FiniteSets, TLC

----------------------------------------------------------------------------
(* Bounds of the model *)

\* calls made on one database
MaxCalls == 4
\* number of argument slots of a rule (SCMP_ARG_MAX of seccomp.h)
SCMP_ARG_MAX == 2
\* actions 1..MaxAction (0 is "no action")
MaxAction == 2
\* argument values 0..MaxDatum
MaxDatum == 1

----------------------------------------------------------------------------
(* enum scmp_compare *)

SCMP_CMP_NE == 1
SCMP_CMP_LT == 2
SCMP_CMP_LE == 3
SCMP_CMP_EQ == 4
SCMP_CMP_GE == 5
SCMP_CMP_GT == 6

RawOps == {SCMP_CMP_NE, SCMP_CMP_LT, SCMP_CMP_LE,
           SCMP_CMP_EQ, SCMP_CMP_GE, SCMP_CMP_GT}

NULL == 0

\* the cells of the heap: room for the chain of every call
NodeIds == 1..(MaxCalls * SCMP_ARG_MAX)
ArgIdx == 0..(SCMP_ARG_MAX - 1)
Actions == 1..MaxAction
Datums == 0..MaxDatum

----------------------------------------------------------------------------
(* struct db_arg_chain_tree *)

\* a cell malloc() has not handed out
UnusedCell ==
    [arg |-> 0, op |-> 0, datum |-> 0, action |-> 0, action_flag |-> 0,
     lvl_prv |-> NULL, lvl_nxt |-> NULL, nxt_t |-> NULL, nxt_f |-> NULL,
     refcnt |-> 0, st |-> "unused"]

\* a cell after free(): its contents are no longer defined
FreedCell == [UnusedCell EXCEPT !.st = "freed"]

\* the cell after malloc() and memset(c_iter, 0, sizeof(*c_iter))
ZeroCell == [UnusedCell EXCEPT !.st = "live"]

EmptyHeap == [n \in NodeIds |-> UnusedCell]

Live(h, n) == n \in NodeIds /\ h[n].st = "live"

\* malloc(): the lowest cell not in use
Malloc(h) == CHOOSE n \in NodeIds :
                 /\ h[n].st = "unused"
                 /\ \A k \in NodeIds : k < n => h[k].st # "unused"

\* the comparison by the argument number alone
db_chain_lt_ArgOnly(x, y) == x.arg < y.arg

db_chain_lt(x, y) ==
    (x.arg < y.arg) \/ ((x.arg = y.arg) /\ (x.op < y.op))

db_chain_eq(x, y) ==
    (x.arg = y.arg) /\ (x.op = y.op) /\ (x.datum = y.datum)

db_chain_leaf(x) == x.action # 0

----------------------------------------------------------------------------
(* _db_arg_chain_tree_free.  m = [h, chains, ub]: the heap, the chains     *)
(* field of the syscall entry being updated, and the fault met so far.     *)

RECURSIVE _db_arg_chain_tree_free(_, _)
_db_arg_chain_tree_free(m, tree) ==
    IF m.ub # "" \/ tree = NULL THEN m
    ELSE IF ~Live(m.h, tree) THEN [m EXCEPT !.ub = "use-after-free"]
    ELSE LET m1 == _db_arg_chain_tree_free(m, m.h[tree].lvl_prv)
             m2 == _db_arg_chain_tree_free(m1, m1.h[tree].lvl_nxt)
             m3 == _db_arg_chain_tree_free(m2, m2.h[tree].nxt_t)
             m4 == _db_arg_chain_tree_free(m3, m3.h[tree].nxt_f)
         IN  IF m4.ub # "" THEN m4
             ELSE IF ~Live(m4.h, tree) THEN [m4 EXCEPT !.ub = "double-free"]
             ELSE [m4 EXCEPT !.h[tree] = FreedCell]

----------------------------------------------------------------------------
(* _db_arg_chain_tree_remove.  `tree` names the pointer the C code passes  *)
(* by address: 0 is &(s_iter->chains), n > 0 is &(node n)->nxt_t.          *)

TreeSlot(m, tree) == IF tree = 0 THEN m.chains ELSE m.h[tree].nxt_t

SetTreeSlot(m, tree, v) ==
    IF tree = 0 THEN [m EXCEPT !.chains = v]
    ELSE [m EXCEPT !.h[tree].nxt_t = v]

\* while (c_iter->lvl_prv != NULL) c_iter = c_iter->lvl_prv;
\* the result is NULL when the walk reads a freed node
RECURSIVE LvlFirst(_, _)
LvlFirst(h, c_iter) ==
    IF ~Live(h, c_iter) THEN NULL
    ELSE IF h[c_iter].lvl_prv = NULL THEN c_iter
    ELSE LvlFirst(h, h[c_iter].lvl_prv)

\* the body of "if (c_iter == node)": unlink node from its level and free it
RemoveUnlink(m, tree, c_iter) ==
    LET c  == m.h[c_iter]
        m1 == IF c_iter = TreeSlot(m, tree)
              THEN SetTreeSlot(m, tree,
                       IF c.lvl_prv # NULL THEN c.lvl_prv ELSE c.lvl_nxt)
              ELSE m
        m2 == IF c.lvl_prv = NULL THEN m1
              ELSE IF ~Live(m1.h, c.lvl_prv)
                   THEN [m1 EXCEPT !.ub = "use-after-free"]
              ELSE [m1 EXCEPT !.h[c.lvl_prv].lvl_nxt = c.lvl_nxt]
        m3 == IF m2.ub # "" \/ c.lvl_nxt = NULL THEN m2
              ELSE IF ~Live(m2.h, c.lvl_nxt)
                   THEN [m2 EXCEPT !.ub = "use-after-free"]
              ELSE [m2 EXCEPT !.h[c.lvl_nxt].lvl_prv = c.lvl_prv]
        m4 == IF m3.ub # "" THEN m3
              ELSE [m3 EXCEPT !.h[c_iter].lvl_prv = NULL,
                              !.h[c_iter].lvl_nxt = NULL]
    IN  _db_arg_chain_tree_free(m4, c_iter)

RECURSIVE _db_arg_chain_tree_remove(_, _, _)
RECURSIVE RemoveLoop(_, _, _, _)

\* one pass of the do { ... } while (c_iter != NULL) loop
RemoveLoop(m, tree, c_iter, node) ==
    IF m.ub # "" THEN m
    ELSE IF ~Live(m.h, c_iter) THEN [m EXCEPT !.ub = "use-after-free"]
    ELSE IF c_iter = node THEN RemoveUnlink(m, tree, c_iter)
    ELSE IF m.h[c_iter].nxt_t = node
         THEN LET f == _db_arg_chain_tree_free(m, m.h[c_iter].nxt_t)
              IN  IF f.ub # "" THEN f ELSE [f EXCEPT !.h[c_iter].nxt_t = NULL]
    ELSE LET m1 == _db_arg_chain_tree_remove(m, c_iter, node) IN
         IF m1.ub # "" THEN m1
         ELSE IF ~Live(m1.h, c_iter) THEN [m1 EXCEPT !.ub = "use-after-free"]
         ELSE IF m1.h[c_iter].nxt_f = node
              THEN LET f == _db_arg_chain_tree_free(m1, m1.h[c_iter].nxt_f)
                   IN  IF f.ub # "" THEN f
                       ELSE [f EXCEPT !.h[c_iter].nxt_f = NULL]
         \* line 135 passes &(c_iter->nxt_t) a second time
         ELSE LET m2 == _db_arg_chain_tree_remove(m1, c_iter, node) IN
              IF m2.ub # "" THEN m2
              ELSE IF ~Live(m2.h, c_iter)
                   THEN [m2 EXCEPT !.ub = "use-after-free"]
              ELSE IF m2.h[c_iter].lvl_nxt = NULL THEN m2
              ELSE RemoveLoop(m2, tree, m2.h[c_iter].lvl_nxt, node)

_db_arg_chain_tree_remove(m, tree, node) ==
    IF m.ub # "" THEN m
    ELSE IF TreeSlot(m, tree) = NULL \/ node = NULL THEN m
    ELSE LET first == LvlFirst(m.h, TreeSlot(m, tree)) IN
         IF first = NULL THEN [m EXCEPT !.ub = "use-after-free"]
         ELSE RemoveLoop(m, tree, first, node)

----------------------------------------------------------------------------
(* db_add_syscall, first part: the argument array and the new chain.       *)
(* A rule's chain_list is the sequence of <<arg, op, datum>> triples read  *)
(* with va_arg; chain_len is its length.                                   *)

\* memset(chain, 0, sizeof(chain))
ZeroChain == [a \in ArgIdx |-> [valid |-> 0, arg |-> 0, op |-> 0, datum |-> 0]]

\* the loop of lines 217-225; rc is "-EINVAL" when an arg number repeats
\* and "UB" when arg_num indexes chain[] past its SCMP_ARG_MAX elements
RECURSIVE ParseArgs(_, _, _)
ParseArgs(chain, chain_list, iter) ==
    IF iter > Len(chain_list) THEN [rc |-> "0", chain |-> chain]
    ELSE LET arg_num == chain_list[iter][1] IN
         IF arg_num \notin ArgIdx THEN [rc |-> "UB", chain |-> chain]
         ELSE IF chain[arg_num].valid = 1
         THEN [rc |-> "-EINVAL", chain |-> chain]
         ELSE ParseArgs([chain EXCEPT ![arg_num] =
                            [valid |-> 1, arg |-> arg_num,
                             op |-> chain_list[iter][2],
                             datum |-> chain_list[iter][3]]],
                        chain_list, iter + 1)

\* RewriteOp with the LE case storing GE
RewriteOp_LeAsGe(op) ==
    CASE op = SCMP_CMP_NE -> [op |-> SCMP_CMP_EQ, tf_flag |-> 0]
      [] op = SCMP_CMP_LT -> [op |-> SCMP_CMP_GE, tf_flag |-> 0]
      [] op = SCMP_CMP_LE -> [op |-> SCMP_CMP_GE, tf_flag |-> 0]
      [] OTHER            -> [op |-> op, tf_flag |-> 1]

\* the switch of lines 262-277: the stored op and tf_flag for a raw op
RewriteOp(op) ==
    CASE op = SCMP_CMP_NE -> [op |-> SCMP_CMP_EQ, tf_flag |-> 0]
      [] op = SCMP_CMP_LT -> [op |-> SCMP_CMP_GE, tf_flag |-> 0]
      [] op = SCMP_CMP_LE -> [op |-> SCMP_CMP_GT, tf_flag |-> 0]
      [] OTHER            -> [op |-> op, tf_flag |-> 1]

\* The loop of lines 236-280.  b = [h, c_prev, c_iter, tf_flag, chains,
\* nalloc, nomem]: chains is s_new->chains, nalloc counts the calls of
\* malloc made so far (s_new's is the first) and failAt is the call that
\* returns NULL (0: none does).  tf_flag is read only after it was set.
RECURSIVE BuildChain(_, _, _, _)
BuildChain(b, chain, iter, failAt) ==
    IF iter >= SCMP_ARG_MAX THEN b
    ELSE IF chain[iter].valid = 0 THEN BuildChain(b, chain, iter + 1, failAt)
    ELSE IF failAt = b.nalloc + 1
         THEN [b EXCEPT !.nomem = TRUE, !.c_iter = NULL, !.nalloc = @ + 1]
    ELSE LET c_iter == Malloc(b.h)
             rw == RewriteOp(chain[iter].op)
             h1 == [b.h EXCEPT ![c_iter] =
                       [ZeroCell EXCEPT !.arg = chain[iter].arg,
                                        !.op = rw.op,
                                        !.datum = chain[iter].datum,
                                        !.refcnt = 1]]
             h2 == IF b.c_prev = NULL THEN h1
                   ELSE IF b.tf_flag # 0
                        THEN [h1 EXCEPT ![b.c_prev].action = 0,
                                        ![b.c_prev].nxt_t = c_iter]
                   ELSE [h1 EXCEPT ![b.c_prev].action = 0,
                                   ![b.c_prev].nxt_f = c_iter]
         IN  BuildChain([h |-> h2, c_prev |-> c_iter, c_iter |-> c_iter,
                         tf_flag |-> rw.tf_flag,
                         chains |-> IF b.c_prev = NULL THEN c_iter
                                    ELSE b.chains,
                         nalloc |-> b.nalloc + 1, nomem |-> FALSE],
                        chain, iter + 1, failAt)

\* lines 227-285: s_new and its chain, the leaf set at the end
NewChain(h, action, chain, failAt) ==
    LET b == BuildChain([h |-> h, c_prev |-> NULL, c_iter |-> NULL,
                         tf_flag |-> 0, chains |-> NULL,
                         nalloc |-> 1, nomem |-> FALSE],
                        chain, 0, failAt)
    IN  IF b.nomem \/ b.c_iter = NULL THEN b
        ELSE [b EXCEPT !.h[b.c_iter].action = action,
                       !.h[b.c_iter].action_flag = b.tf_flag]

----------------------------------------------------------------------------
(* db_add_syscall, the walk of lines 320-419.  The result names the way    *)
(* the loop is left: "add_free", "add_free_match", "return" (lines 370     *)
(* and 419, which free nothing), with rc, c_prev and the branch taken.     *)

WalkExit(m, exit, rc, c_prev, path) ==
    [m |-> m, exit |-> exit, rc |-> rc, c_prev |-> c_prev, path |-> path]

\* WalkBothLeaves comparing the actions of the two leaves
WalkBothLeaves_ByAction(m, c_iter, ec_iter, c_prev) ==
    IF m.h[ec_iter].action # m.h[c_iter].action
    THEN WalkExit(_db_arg_chain_tree_remove(m, 0, ec_iter),
                  "add_free", "0", c_prev, "D2a_remove")
    ELSE WalkExit(m, "add_free", "0", c_prev, "D2a_same")

\* lines 327-336: both nodes are leaves
WalkBothLeaves(m, c_iter, ec_iter, c_prev) ==
    IF m.h[ec_iter].action_flag # m.h[c_iter].action_flag
    THEN WalkExit(_db_arg_chain_tree_remove(m, 0, ec_iter),
                  "add_free", "0", c_prev, "D2a_remove")
    ELSE WalkExit(m, "add_free", "0", c_prev, "D2a_same")

\* WalkExistingLeaf grafting the continuation of the new chain on whichever
\* side it is, without the test for the existing rule being shorter
WalkExistingLeaf_GraftAlways(m, c_iter, ec_iter, c_prev) ==
    IF m.h[c_iter].nxt_t # NULL
    THEN WalkExit([m EXCEPT !.h[ec_iter].nxt_t = m.h[c_iter].nxt_t],
                  "add_free_match", "0", c_prev, "D2b_graft")
    ELSE WalkExit([m EXCEPT !.h[ec_iter].nxt_f = m.h[c_iter].nxt_f],
                  "add_free_match", "0", c_prev, "D2b_graft")

\* lines 337-354: the existing node is a leaf, the new one is not
WalkExistingLeaf(m, c_iter, ec_iter, c_prev) ==
    IF m.h[ec_iter].action_flag # 0
    THEN IF m.h[c_iter].nxt_t # NULL
         THEN WalkExit(m, "add_free", "0", c_prev, "D2b_shorter")
         ELSE WalkExit([m EXCEPT !.h[ec_iter].nxt_f = m.h[c_iter].nxt_f],
                       "add_free_match", "0", c_prev, "D2b_graft")
    ELSE IF m.h[c_iter].nxt_f # NULL
         THEN WalkExit(m, "add_free", "0", c_prev, "D2b_shorter")
         ELSE WalkExit([m EXCEPT !.h[ec_iter].nxt_t = m.h[c_iter].nxt_t],
                       "add_free_match", "0", c_prev, "D2b_graft")

\* WalkNewLeaf freeing the nxt_t side whatever the action_flag is
WalkNewLeaf_TrueSideOnly(m, action, c_iter, ec_iter, c_prev) ==
    LET m1 == [m EXCEPT !.h[ec_iter].action = action,
                        !.h[ec_iter].action_flag = m.h[c_iter].action_flag]
        f  == _db_arg_chain_tree_free(m1, m1.h[ec_iter].nxt_t)
        m2 == IF f.ub # "" THEN f ELSE [f EXCEPT !.h[ec_iter].nxt_t = NULL]
    IN  WalkExit(m2, "return", "0", c_prev, "D2c")

\* lines 355-370: the new node is a leaf, the existing one is not
WalkNewLeaf(m, action, c_iter, ec_iter, c_prev) ==
    LET m1 == [m EXCEPT !.h[ec_iter].action = action,
                        !.h[ec_iter].action_flag = m.h[c_iter].action_flag]
        m2 == IF m1.h[ec_iter].action_flag # 0
              THEN LET f == _db_arg_chain_tree_free(m1, m1.h[ec_iter].nxt_t)
                   IN  IF f.ub # "" THEN f
                       ELSE [f EXCEPT !.h[ec_iter].nxt_t = NULL]
              ELSE LET f == _db_arg_chain_tree_free(m1, m1.h[ec_iter].nxt_f)
                   IN  IF f.ub # "" THEN f
                       ELSE [f EXCEPT !.h[ec_iter].nxt_f = NULL]
    IN  WalkExit(m2, "return", "0", c_prev, "D2c")

RECURSIVE Walk(_, _, _, _, _)
Walk(m, action, c_iter, ec_iter, c_prev) ==
    \* while ((c_iter != NULL) && (ec_iter != NULL)); return -EFAULT;
    IF c_iter = NULL \/ ec_iter = NULL
    THEN WalkExit(m, "return", "-EFAULT", c_prev, "fault_end")
    ELSE IF ~Live(m.h, ec_iter) \/ ~Live(m.h, c_iter)
    THEN WalkExit([m EXCEPT !.ub = "use-after-free"],
                  "return", "UB", c_prev, "ub")
    ELSE IF db_chain_eq(m.h[c_iter], m.h[ec_iter])
    THEN LET m1 == [m EXCEPT !.h[ec_iter].refcnt = @ + 1]
             c  == m1.h[c_iter]
             ec == m1.h[ec_iter]
         IN  IF db_chain_leaf(ec) /\ db_chain_leaf(c)
             THEN WalkBothLeaves(m1, c_iter, ec_iter, c_prev)
             ELSE IF db_chain_leaf(ec)
             THEN WalkExistingLeaf(m1, c_iter, ec_iter, c_prev)
             ELSE IF db_chain_leaf(c)
             THEN WalkNewLeaf(m1, action, c_iter, ec_iter, c_prev)
             ELSE IF c.nxt_t # NULL
             THEN IF ec.nxt_t = NULL
                  THEN WalkExit([m1 EXCEPT !.h[ec_iter].nxt_t = c.nxt_t],
                                "add_free_match", "0", c_prev, "D2d_graft")
                  ELSE Walk(m1, action, c.nxt_t, ec.nxt_t, c_iter)
             ELSE IF c.nxt_f # NULL
             THEN IF ec.nxt_f = NULL
                  THEN WalkExit([m1 EXCEPT !.h[ec_iter].nxt_f = c.nxt_f],
                                "add_free_match", "0", c_prev, "D2d_graft")
                  ELSE Walk(m1, action, c.nxt_f, ec.nxt_f, c_iter)
             ELSE WalkExit(m1, "add_free", "-EFAULT", c_prev, "fault_node")
    ELSE IF db_chain_lt(m.h[c_iter], m.h[ec_iter])
         THEN IF m.h[ec_iter].lvl_prv = NULL
              THEN WalkExit([m EXCEPT !.h[ec_iter].lvl_prv = c_iter],
                            "add_free_match", "0", c_prev, "D1")
              ELSE Walk(m, action, c_iter, m.h[ec_iter].lvl_prv, c_prev)
         ELSE IF m.h[ec_iter].lvl_nxt = NULL
              THEN WalkExit([m EXCEPT !.h[ec_iter].lvl_nxt = c_iter],
                            "add_free_match", "0", c_prev, "D1")
              ELSE Walk(m, action, c_iter, m.h[ec_iter].lvl_nxt, c_prev)

----------------------------------------------------------------------------
(* db_add_syscall, the whole function.  The database is the sequence      *)
(* `syscalls` of entries [num, chains] in list order and the heap h.      *)

\* SysSkip comparing with <= : the walk passes the entry of the same number
RECURSIVE SysSkip_PastEqual(_, _, _)
SysSkip_PastEqual(syscalls, syscall, s_iter) ==
    IF s_iter <= Len(syscalls) /\ syscalls[s_iter].num <= syscall
    THEN SysSkip_PastEqual(syscalls, syscall, s_iter + 1)
    ELSE s_iter

\* lines 291-295: the position s_iter stops at (Len + 1 stands for NULL);
\* s_prev is the position before it (0 stands for NULL)
RECURSIVE SysSkip(_, _, _)
SysSkip(syscalls, syscall, s_iter) ==
    IF s_iter <= Len(syscalls) /\ syscalls[s_iter].num < syscall
    THEN SysSkip(syscalls, syscall, s_iter + 1)
    ELSE s_iter

\* lines 298-301: s_prev->next = s_new, or db->syscalls = s_new.  s_new->next
\* is NULL since the memset of line 233 and is never assigned, so the list
\* ends at s_new.
LinkNew(syscalls, s_prev, s_new) ==
    Append(SubSeq(syscalls, 1, s_prev), s_new)

\* the label add_free (lines 421-425)
AddFree(m, s_new_chains) == _db_arg_chain_tree_free(m, s_new_chains)

\* the label add_free_match (lines 426-434)
AddFreeMatch(m, c_prev, s_new_chains) ==
    IF c_prev = NULL THEN m
    ELSE _db_arg_chain_tree_free(
             [m EXCEPT !.h[c_prev].nxt_t = NULL, !.h[c_prev].nxt_f = NULL],
             s_new_chains)

AddResult(rc, path, syscalls, h, ub, s_new) ==
    [rc |-> rc, path |-> path, syscalls |-> syscalls, h |-> h, ub |-> ub,
     s_new |-> s_new]

\* lines 318-435: the walk and the cleanup after it
AddWalk(syscalls, h, action, s_iter, s_new_chains) ==
    LET w == Walk([h |-> h, chains |-> syscalls[s_iter].chains, ub |-> ""],
                  action, s_new_chains, syscalls[s_iter].chains, NULL)
        m == CASE w.m.ub # ""               -> w.m
               [] w.exit = "add_free"       -> AddFree(w.m, s_new_chains)
               [] w.exit = "add_free_match" ->
                      AddFreeMatch(w.m, w.c_prev, s_new_chains)
               [] OTHER                     -> w.m
    IN  AddResult(w.rc, w.path,
                  [syscalls EXCEPT ![s_iter].chains = m.chains],
                  m.h, m.ub,
                  IF w.exit = "return" THEN "leaked" ELSE "freed")

\* failAt is the call of malloc that returns NULL (0: none does)
db_add_syscall(syscalls, h, action, syscall, chain_list, failAt) ==
    IF Len(chain_list) > SCMP_ARG_MAX
    THEN AddResult("-EINVAL", "invalid_len", syscalls, h, "", "none")
    ELSE LET p == ParseArgs(ZeroChain, chain_list, 1) IN
    IF p.rc = "UB"
    THEN AddResult("-EINVAL", "args", syscalls, h, "out-of-bounds", "none")
    ELSE IF p.rc # "0"
    THEN AddResult("-EINVAL", "invalid_dup", syscalls, h, "", "none")
    ELSE IF failAt = 1
    \* s_new == NULL: add_free reads s_new->chains
    THEN AddResult("-ENOMEM", "nomem_sys", syscalls, h,
                   "null-dereference", "none")
    ELSE LET b == NewChain(h, action, p.chain, failAt) IN
    IF b.nomem
    THEN LET m == AddFree([h |-> b.h, chains |-> NULL, ub |-> ""], b.chains)
         IN  AddResult("-ENOMEM", "nomem_node", syscalls, m.h, m.ub, "freed")
    ELSE LET s_iter == SysSkip(syscalls, syscall, 1) IN
    IF s_iter > Len(syscalls) \/ syscalls[s_iter].num # syscall
    THEN AddResult("0", "A",
                   LinkNew(syscalls, s_iter - 1,
                           [num |-> syscall, chains |-> b.chains]),
                   b.h, "", "linked")
    ELSE IF syscalls[s_iter].chains = NULL
    THEN LET m == AddFree([h |-> b.h, chains |-> NULL, ub |-> ""], b.chains)
         IN  AddResult("0", "B", syscalls, m.h, m.ub, "freed")
    ELSE IF b.chains = NULL
    THEN LET m == _db_arg_chain_tree_free(
                      [h |-> b.h, chains |-> NULL, ub |-> ""],
                      syscalls[s_iter].chains)
         IN  AddResult("0", "C", [syscalls EXCEPT ![s_iter].chains = NULL],
                       m.h, m.ub, "freed")
    ELSE AddWalk(syscalls, b.h, action, s_iter, b.chains)

\* db_find_syscall: the entry for syscall, or NULL; an entry is given by
\* its position in the list
RECURSIVE FindSkip(_, _, _)
FindSkip(syscalls, syscall, iter) ==
    IF iter <= Len(syscalls) /\ syscalls[iter].num < syscall
    THEN FindSkip(syscalls, syscall, iter + 1)
    ELSE iter

db_find_syscall(syscalls, syscall) ==
    LET iter == FindSkip(syscalls, syscall, 1) IN
    IF iter <= Len(syscalls) /\ syscalls[iter].num = syscall
    THEN iter ELSE NULL

----------------------------------------------------------------------------
(* Reachability and the renumbering of cells after a call *)

InSeq(q, x) == \E i \in 1..Len(q) : q[i] = x

\* the cells reached from n, in traversal order, appended to acc; a freed
\* cell is listed and not entered
RECURSIVE Dfs(_, _, _)
Dfs(h, n, acc) ==
    IF n = NULL \/ InSeq(acc, n) THEN acc
    ELSE IF h[n].st # "live" THEN Append(acc, n)
    ELSE Dfs(h, h[n].nxt_f,
             Dfs(h, h[n].nxt_t,
                 Dfs(h, h[n].lvl_nxt,
                     Dfs(h, h[n].lvl_prv, Append(acc, n)))))

RECURSIVE ReachOrder(_, _, _, _)
ReachOrder(syscalls, h, i, acc) ==
    IF i > Len(syscalls) THEN acc
    ELSE ReachOrder(syscalls, h, i + 1, Dfs(h, syscalls[i].chains, acc))

PosIn(q, x) == IF x = NULL THEN NULL ELSE CHOOSE i \in 1..Len(q) : q[i] = x

\* nodes that are allocated and that the database no longer reaches
Unreached(syscalls, h) ==
    LET order == ReachOrder(syscalls, h, 1, <<>>)
    IN  {n \in NodeIds : h[n].st = "live" /\ ~InSeq(order, n)}

Renumber(syscalls, h) ==
    LET order == ReachOrder(syscalls, h, 1, <<>>)
        cell(n) == IF h[n].st # "live" THEN FreedCell
                   ELSE [h[n] EXCEPT !.lvl_prv = PosIn(order, @),
                                     !.lvl_nxt = PosIn(order, @),
                                     !.nxt_t = PosIn(order, @),
                                     !.nxt_f = PosIn(order, @)]
    IN  [syscalls |-> [i \in 1..Len(syscalls) |->
                          [num |-> syscalls[i].num,
                           chains |-> PosIn(order, syscalls[i].chains)]],
         h |-> [i \in NodeIds |->
                   IF i <= Len(order) THEN cell(order[i]) ELSE UnusedCell]]

----------------------------------------------------------------------------
(* State *)

VARIABLES
    def_action,   \* db->def_action
    syscalls,     \* the list db->syscalls: entries [num, chains] in order
    heap,         \* the struct db_arg_chain_tree nodes
    last,         \* the last call and its outcome
    hist          \* the calls of db_add_syscall so far, with their return codes

vars == <<def_action, syscalls, heap, last, hist>>

Rule(action, syscall, chain_list) ==
    [action |-> action, syscall |-> syscall, chain |-> chain_list]

NoRule == Rule(0, 0, <<>>)

\* call: the function; rule, failAt: its arguments and the malloc that
\* failed; rc: what it returned ("UB" after a fault); path: the branch that
\* ended it; s_new: what became of the new syscall entry; leaked: nodes
\* left allocated and unreachable; lost: entries cut off the list
NoCall ==
    [call |-> "db_new", rule |-> NoRule, failAt |-> 0, rc |-> "0",
     path |-> "", s_new |-> "none", leaked |-> 0, lost |-> 0]

\* db_new(def_action): memset to zero, then the default action
Init ==
    /\ def_action = MaxAction
    /\ syscalls = <<>>
    /\ heap = EmptyHeap
    /\ last = NoCall
    /\ hist = <<>>

Running ==
    /\ last.rc # "UB"
    /\ last.call # "db_destroy"
    /\ Len(hist) < MaxCalls

\* The state after db_add_syscall has run with outcome r.  On a fault the
\* database is either as the call found it or as it was at the fault.
AddOutcome(r, rule, failAt) ==
    \E keep \in (IF r.ub = "" THEN {FALSE} ELSE {FALSE, TRUE}) :
        LET after == IF keep THEN Renumber(syscalls, heap)
                     ELSE Renumber(r.syscalls, r.h)
            rc == IF r.ub = "" THEN r.rc ELSE "UB"
        IN  /\ syscalls' = after.syscalls
            /\ heap' = after.h
            /\ last' = [call |-> "db_add_syscall", rule |-> rule,
                        failAt |-> failAt, rc |-> rc,
                        path |-> IF r.ub = "" THEN r.path ELSE r.ub,
                        s_new |-> r.s_new,
                        leaked |-> Cardinality(Unreached(r.syscalls, r.h)),
                        lost |-> Len(syscalls) + (IF r.path = "A" THEN 1 ELSE 0)
                                 - Len(r.syscalls)]
            /\ hist' = Append(hist, [rule |-> rule, rc |-> rc])
            /\ UNCHANGED def_action

\* db_add_syscall(db, action, syscall, chain_len, chain_list); failAt is the
\* call of malloc that returns NULL (0: none does)
AddCall(rule, failAt) ==
    /\ Running
    /\ AddOutcome(db_add_syscall(syscalls, heap, rule.action, rule.syscall,
                                 rule.chain, failAt),
                  rule, failAt)

\* db_destroy: _db_list_foreach_free frees each entry after its tree
RECURSIVE DestroyFrom(_, _, _)
DestroyFrom(syscalls_, m, i) ==
    IF i > Len(syscalls_) \/ m.ub # "" THEN m
    ELSE DestroyFrom(syscalls_,
                     _db_arg_chain_tree_free(m, syscalls_[i].chains), i + 1)

DestroyCall ==
    /\ Running
    /\ LET m == DestroyFrom(syscalls,
                            [h |-> heap, chains |-> NULL, ub |-> ""], 1)
           after == IF m.ub = "" THEN Renumber(<<>>, m.h)
                    ELSE Renumber(syscalls, m.h)
       IN  /\ syscalls' = after.syscalls
           /\ heap' = after.h
           /\ last' = [NoCall EXCEPT
                          !.call = "db_destroy",
                          !.rc = IF m.ub = "" THEN "0" ELSE "UB",
                          !.path = m.ub,
                          !.leaked = Cardinality(Unreached(<<>>, m.h))]
    /\ UNCHANGED <<def_action, hist>>

----------------------------------------------------------------------------
(* The rules the callers submit *)

\* predicates on argument 0 and on argument 1
Preds0 == {<<0, SCMP_CMP_EQ, 0>>, <<0, SCMP_CMP_NE, 0>>,
           <<0, SCMP_CMP_EQ, 1>>, <<0, SCMP_CMP_GE, 0>>}
Preds1 == {<<1, SCMP_CMP_EQ, 0>>, <<1, SCMP_CMP_NE, 0>>,
           <<1, SCMP_CMP_GT, 0>>}

TreeChains ==
    {<<>>} \cup {<<p>> : p \in Preds0 \cup Preds1}
           \cup {<<p, q>> : p \in {<<0, SCMP_CMP_EQ, 0>>, <<0, SCMP_CMP_NE, 0>>},
                            q \in Preds1}

\* rules that build and rewrite the tree of syscall 2, and rules that
\* make and drop the entries around it
Rules ==
    {Rule(1, 2, c) : c \in TreeChains}
    \cup {Rule(2, 2, c) : c \in {<<>>, <<<<0, SCMP_CMP_EQ, 0>>>>,
                                 <<<<0, SCMP_CMP_NE, 0>>>>}}
    \cup {Rule(1, s, <<>>) : s \in {1, 3}}

Add == \E r \in Rules : AddCall(r, 0)

\* the rules submitted when memory runs out
NoMemRules ==
    {Rule(1, 2, <<>>), Rule(1, 2, <<<<0, SCMP_CMP_EQ, 0>>, <<1, SCMP_CMP_NE, 0>>>>)}

AddNoMem ==
    \E r \in NoMemRules :
        \E failAt \in 1..(1 + Len(r.chain)) : AddCall(r, failAt)

Destroy == DestroyCall

Next == Add \/ AddNoMem \/ Destroy

Spec == Init /\ [][Next]_vars

----------------------------------------------------------------------------
(* Views of the database used to state the claims *)

\* the tree below pointer n as a value that does not mention cell numbers
RECURSIVE TreeOf(_, _)
TreeOf(h, n) ==
    IF n = NULL THEN [kind |-> "null"]
    ELSE IF h[n].st # "live" THEN [kind |-> "freed"]
    ELSE [kind |-> "node", arg |-> h[n].arg, op |-> h[n].op,
          datum |-> h[n].datum, action |-> h[n].action,
          action_flag |-> h[n].action_flag, refcnt |-> h[n].refcnt,
          lvl_prv |-> TreeOf(h, h[n].lvl_prv),
          lvl_nxt |-> TreeOf(h, h[n].lvl_nxt),
          nxt_t |-> TreeOf(h, h[n].nxt_t),
          nxt_f |-> TreeOf(h, h[n].nxt_f)]

\* the same without the reference counts
RECURSIVE ShapeOf(_, _)
ShapeOf(h, n) ==
    IF n = NULL THEN [kind |-> "null"]
    ELSE IF h[n].st # "live" THEN [kind |-> "freed"]
    ELSE [kind |-> "node", arg |-> h[n].arg, op |-> h[n].op,
          datum |-> h[n].datum, action |-> h[n].action,
          action_flag |-> h[n].action_flag,
          lvl_prv |-> ShapeOf(h, h[n].lvl_prv),
          lvl_nxt |-> ShapeOf(h, h[n].lvl_nxt),
          nxt_t |-> ShapeOf(h, h[n].nxt_t),
          nxt_f |-> ShapeOf(h, h[n].nxt_f)]

DbShape(syscalls_, h) ==
    [i \in 1..Len(syscalls_) |->
        [num |-> syscalls_[i].num, tree |-> ShapeOf(h, syscalls_[i].chains)]]

\* the database after db_add_syscall(rule) on the database (syscalls_, h),
\* every malloc succeeding, with the call's return code
Apply(syscalls_, h, rule) ==
    LET r == db_add_syscall(syscalls_, h, rule.action, rule.syscall,
                            rule.chain, 0)
        after == Renumber(r.syscalls, r.h)
    IN  [syscalls |-> after.syscalls, h |-> after.h,
         rc |-> IF r.ub = "" THEN r.rc ELSE "UB"]

HasEntry(syscalls_, s) == db_find_syscall(syscalls_, s) # NULL

\* the chains field of the entry for s
ChainsOf(syscalls_, s) == syscalls_[db_find_syscall(syscalls_, s)].chains

Rootless(syscalls_, s) == HasEntry(syscalls_, s) /\ ChainsOf(syscalls_, s) = NULL

AddedOk == last.call = "db_add_syscall" /\ last.rc = "0"

----------------------------------------------------------------------------
(* A second specification: one add to the empty database, the rule drawn   *)
(* from every raw rule of the bounds (any order of the predicates).        *)

RawPreds == {<<a, op, d>> : a \in ArgIdx, op \in RawOps, d \in Datums}

RECURSIVE ChainListsOfLen(_)
ChainListsOfLen(n) ==
    IF n = 0 THEN {<<>>}
    ELSE {Append(cl, p) : cl \in ChainListsOfLen(n - 1), p \in RawPreds}

DistinctArgs(cl) ==
    \A i, j \in 1..Len(cl) : i # j => cl[i][1] # cl[j][1]

ValidChainLists ==
    {cl \in UNION {ChainListsOfLen(n) : n \in 0..SCMP_ARG_MAX} :
        DistinctArgs(cl)}

AddFirst ==
    \E a \in Actions, cl \in ValidChainLists :
        /\ syscalls = <<>>
        /\ AddCall(Rule(a, 1, cl), 0)

NextNorm == AddFirst

SpecNorm == Init /\ [][NextNorm]_vars

----------------------------------------------------------------------------
(* A third specification: two one-predicate rules on one syscall, over     *)
(* every raw predicate and action                                          *)

OnePredRules == {Rule(a, 1, <<p>>) : a \in Actions, p \in RawPreds}

AddOnePred ==
    \E r \in OnePredRules : Len(hist) < 2 /\ AddCall(r, 0)

NextPair == AddOnePred

SpecPair == Init /\ [][NextPair]_vars

----------------------------------------------------------------------------
(* C9 *)

\* the table of the specification: raw op -> (stored op, action-branch)
RefStoredOp(op) ==
    CASE op = SCMP_CMP_EQ -> SCMP_CMP_EQ
      [] op = SCMP_CMP_NE -> SCMP_CMP_EQ
      [] op = SCMP_CMP_LT -> SCMP_CMP_GE
      [] op = SCMP_CMP_LE -> SCMP_CMP_GT
      [] op = SCMP_CMP_GT -> SCMP_CMP_GT
      [] op = SCMP_CMP_GE -> SCMP_CMP_GE

RefBranch(op) == IF op \in {SCMP_CMP_EQ, SCMP_CMP_GT, SCMP_CMP_GE} THEN 1 ELSE 0

\* the predicates of a rule in ascending order of arg
RefSorted(cl) ==
    [i \in 1..Len(cl) |->
        CHOOSE p \in {cl[k] : k \in 1..Len(cl)} :
            Cardinality({k \in 1..Len(cl) : cl[k][1] < p[1]}) = i - 1]

\* node n and what hangs below it are the linear path for preds[i..]
RECURSIVE IsRefPath(_, _, _, _, _)
IsRefPath(h, n, preds, i, action) ==
    /\ Live(h, n)
    /\ h[n].arg = preds[i][1]
    /\ h[n].op = RefStoredOp(preds[i][2])
    /\ h[n].datum = preds[i][3]
    /\ h[n].lvl_prv = NULL /\ h[n].lvl_nxt = NULL
    /\ IF i = Len(preds)
       THEN /\ h[n].action = action
            /\ h[n].action_flag = RefBranch(preds[i][2])
            /\ h[n].nxt_t = NULL /\ h[n].nxt_f = NULL
       ELSE /\ h[n].action = 0
            /\ IF RefBranch(preds[i][2]) = 1
               THEN h[n].nxt_f = NULL
                    /\ IsRefPath(h, h[n].nxt_t, preds, i + 1, action)
               ELSE h[n].nxt_t = NULL
                    /\ IsRefPath(h, h[n].nxt_f, preds, i + 1, action)

IsRefChain(h, chains, rule) ==
    IF Len(rule.chain) = 0 THEN chains = NULL
    ELSE IsRefPath(h, chains, RefSorted(rule.chain), 1, rule.action)

StoredOps == {SCMP_CMP_EQ, SCMP_CMP_GT, SCMP_CMP_GE}

\* C9: the chain a valid raw rule is turned into, seen as the tree of the
\* entry a first add creates, is the reference path: one node per
\* predicate, ascending by arg, stored op and branch as in the table,
\* interior nodes without action and with their only child on their own
\* branch side, the action on the deepest node; and every op stored in
\* the database is EQ, GT or GE.
C9_NormalisedChain ==
    /\ (last.call = "db_add_syscall" /\ last.path = "A") =>
           /\ last.rc = "0"
           /\ Len(syscalls) = 1
           /\ syscalls[1].num = last.rule.syscall
           /\ IsRefChain(heap, syscalls[1].chains, last.rule)
    /\ \A n \in NodeIds : heap[n].st = "live" => heap[n].op \in StoredOps

\* a two-predicate rule given with arg 1 first and two negated ops was added
C9_Witness ==
    /\ last.call = "db_add_syscall" /\ last.path = "A" /\ last.rc = "0"
    /\ Len(last.rule.chain) = 2
    /\ last.rule.chain[1][1] = 1 /\ last.rule.chain[1][2] = SCMP_CMP_LE
    /\ last.rule.chain[2][1] = 0 /\ last.rule.chain[2][2] = SCMP_CMP_NE
    /\ heap[syscalls[1].chains].arg = 0
    /\ heap[syscalls[1].chains].nxt_f # NULL

----------------------------------------------------------------------------
(* C2 *)

\* C2: a successful add for syscall s leaves the default action as it was
\* and, for every other syscall that had an entry, an entry with the same
\* tree.
C2_FrameOtherSyscalls ==
    [][(last'.call = "db_add_syscall" /\ last'.rc = "0") =>
          /\ def_action' = def_action
          /\ \A i \in 1..Len(syscalls) :
                syscalls[i].num # last'.rule.syscall =>
                    /\ HasEntry(syscalls', syscalls[i].num)
                    /\ TreeOf(heap', ChainsOf(syscalls', syscalls[i].num))
                         = TreeOf(heap, syscalls[i].chains)]_vars

----------------------------------------------------------------------------
(* C3 *)

\* C3: for two rules on different syscalls, adding them in either order
\* to the current database gives the same database.
C3_DisjointCommute ==
    \A r1, r2 \in Rules :
        (Running /\ Len(hist) + 2 <= MaxCalls /\ r1.syscall # r2.syscall) =>
            LET a1  == Apply(syscalls, heap, r1)
                a12 == Apply(a1.syscalls, a1.h, r2)
                a2  == Apply(syscalls, heap, r2)
                a21 == Apply(a2.syscalls, a2.h, r1)
            IN  (a1.rc = "0" /\ a12.rc = "0" /\ a2.rc = "0" /\ a21.rc = "0")
                => (a12.syscalls = a21.syscalls /\ a12.h = a21.h)

----------------------------------------------------------------------------
(* C5 *)

\* C5: the syscall entries reachable from the database are strictly
\* ascending by number, so no number has two entries.
C5_SyscallsAscending ==
    \A i, j \in 1..Len(syscalls) :
        i < j => syscalls[i].num < syscalls[j].num

\* an entry was added behind two others
C5_Witness ==
    /\ AddedOk /\ last.path = "A"
    /\ Len(syscalls) = 3
    /\ syscalls[3].num = last.rule.syscall

----------------------------------------------------------------------------
(* C7 *)

\* C7: the database after add(A, s, []) tells which action A was passed:
\* two zero-predicate adds that differ only in the action leave different
\* databases.
C7_UnconditionalActionStored ==
    \A s \in {r.syscall : r \in Rules}, a1, a2 \in Actions :
        (Running /\ a1 # a2) =>
            LET x == Apply(syscalls, heap, Rule(a1, s, <<>>))
                y == Apply(syscalls, heap, Rule(a2, s, <<>>))
            IN  (x.rc = "0" /\ y.rc = "0") =>
                    (x.syscalls # y.syscalls \/ x.h # y.h)

----------------------------------------------------------------------------
(* C10 *)

\* C10: when a malloc of add fails, add returns -ENOMEM without reading
\* through the failed allocation, no node of the new chain stays
\* allocated, and the database is unchanged.
C10_AllocFailureClean ==
    [][(last'.call = "db_add_syscall" /\ last'.failAt # 0) =>
          /\ last'.rc = "-ENOMEM"
          /\ last'.leaked = 0
          /\ syscalls' = syscalls
          /\ heap' = heap]_vars

----------------------------------------------------------------------------
(* C1 *)

\* the normalised predicates of a rule: ascending by arg, stored op,
\* datum and the branch the rule takes
NormPreds(rule) ==
    LET srt == RefSorted(rule.chain)
    IN  [i \in 1..Len(rule.chain) |->
            [arg |-> srt[i][1], op |-> RefStoredOp(srt[i][2]),
             datum |-> srt[i][3], flag |-> RefBranch(srt[i][2])]]

\* the live nodes of the level that S belongs to
RECURSIVE LevelClosure(_, _)
LevelClosure(h, S) ==
    LET T == S \cup {m \in NodeIds : Live(h, m) /\
                        \E n \in S : h[n].lvl_prv = m \/ h[n].lvl_nxt = m}
    IN  IF T = S THEN S ELSE LevelClosure(h, T)

LevelOf(h, n) == LevelClosure(h, {m \in {n} : Live(h, m)})

\* an added rule on syscall s whose normalised predicates are the first i
\* of P and whose action is a
PrefixRuleAdded(s, P, i, a) ==
    \E k \in 1..Len(hist) :
        /\ hist[k].rc = "0"
        /\ hist[k].rule.syscall = s
        /\ hist[k].rule.action = a
        /\ NormPreds(hist[k].rule) = SubSeq(P, 1, i)

\* two added one-predicate rules on s that differ only in the branch
ComplementAdded(s) ==
    \E j, k \in 1..Len(hist) :
        /\ hist[j].rc = "0" /\ hist[k].rc = "0"
        /\ hist[j].rule.syscall = s /\ hist[k].rule.syscall = s
        /\ Len(hist[j].rule.chain) = 1 /\ Len(hist[k].rule.chain) = 1
        /\ LET x == NormPreds(hist[j].rule)[1]
               y == NormPreds(hist[k].rule)[1]
           IN  x.arg = y.arg /\ x.op = y.op /\ x.datum = y.datum
               /\ x.flag # y.flag

\* following P[i..] from the level of node lvl ends as the claim allows
RECURSIVE Honoured(_, _, _, _, _)
Honoured(h, lvl, P, i, rule) ==
    \E n \in LevelOf(h, lvl) :
        /\ h[n].arg = P[i].arg /\ h[n].op = P[i].op
        /\ h[n].datum = P[i].datum
        /\ \/ /\ i = Len(P)
              /\ h[n].action = rule.action
              /\ h[n].action_flag = P[i].flag
           \/ /\ db_chain_leaf(h[n])
              /\ h[n].action_flag = P[i].flag
              /\ PrefixRuleAdded(rule.syscall, P, i, h[n].action)
           \/ /\ i < Len(P)
              /\ LET nxt == IF P[i].flag = 1 THEN h[n].nxt_t
                            ELSE h[n].nxt_f
                 IN  nxt # NULL /\ Honoured(h, nxt, P, i + 1, rule)

RuleHonoured(rule) ==
    /\ HasEntry(syscalls, rule.syscall)
    /\ LET c == ChainsOf(syscalls, rule.syscall)
       IN  IF c = NULL
           THEN \/ \E a \in Actions :
                       PrefixRuleAdded(rule.syscall, NormPreds(rule), 0, a)
                \/ ComplementAdded(rule.syscall)
           ELSE /\ Len(rule.chain) > 0
                /\ Honoured(heap, c, NormPreds(rule), 1, rule)

OneSyscallAllOk ==
    /\ last.call = "db_add_syscall"
    /\ \A k \in 1..Len(hist) :
          hist[k].rc = "0" /\ hist[k].rule.syscall = hist[1].rule.syscall

\* C1: after successful adds on one syscall, following the normalised
\* predicates of every rule added so far through the syscall's tree ends
\* at a leaf with the rule's action and branch, or at a leaf or absent
\* root that a rule with a prefix of its predicates left (an absent root
\* left by the collapse of a complementary pair is accepted as well).
C1_RulesHonoured ==
    OneSyscallAllOk =>
        \A k \in 1..Len(hist) : RuleHonoured(hist[k].rule)

----------------------------------------------------------------------------
(* C4 *)

\* C4: adding a rule a second time leaves the database as the first add
\* left it: same entries, same tree shapes, same predicate, action and
\* action-branch in every node (the reference counts are left out of the
\* comparison here).
C4_Idempotent ==
    \A r \in Rules :
        (Running /\ Len(hist) + 2 <= MaxCalls) =>
            LET a1 == Apply(syscalls, heap, r)
                a2 == Apply(a1.syscalls, a1.h, r)
            IN  a1.rc = "0" =>
                    /\ a2.rc = "0"
                    /\ DbShape(a2.syscalls, a2.h) = DbShape(a1.syscalls, a1.h)

----------------------------------------------------------------------------
(* C6 *)

\* C6: with every malloc succeeding, a zero-predicate add on an entry
\* that has a tree succeeds and leaves the entry without a root; an add
\* on an entry without a root succeeds and leaves it without a root; and
\* a syscall that a zero-predicate rule was added for never has an entry
\* with a tree again.
C6_UnconditionalAbsorbing ==
    [][(last'.call = "db_add_syscall" /\ last'.failAt = 0) =>
          LET s == last'.rule.syscall
          IN  /\ (HasEntry(syscalls, s) /\ last'.rule.chain = <<>>) =>
                    (last'.rc = "0" /\ Rootless(syscalls', s))
              /\ Rootless(syscalls, s) =>
                    (last'.rc = "0" /\ Rootless(syscalls', s))
              /\ \A k \in 1..Len(hist') :
                    (hist'[k].rc = "0" /\ hist'[k].rule.chain = <<>>
                        /\ HasEntry(syscalls', hist'[k].rule.syscall))
                    => Rootless(syscalls', hist'[k].rule.syscall)]_vars

----------------------------------------------------------------------------
(* C8 *)

\* the first two calls added one-predicate rules on the same syscall whose
\* predicates have the same arg, stored op and datum
TwoRulesOnePredicate ==
    /\ Len(hist) = 2
    /\ last.call = "db_add_syscall" /\ last.failAt = 0
    /\ hist[1].rc = "0"
    /\ hist[1].rule.syscall = hist[2].rule.syscall
    /\ Len(hist[1].rule.chain) = 1 /\ Len(hist[2].rule.chain) = 1
    /\ LET x == NormPreds(hist[1].rule)[1]
           y == NormPreds(hist[2].rule)[1]
       IN  x.arg = y.arg /\ x.op = y.op /\ x.datum = y.datum

SameBranch ==
    NormPreds(hist[1].rule)[1].flag = NormPreds(hist[2].rule)[1].flag

\* C8 as stated: on an empty database, a one-predicate rule followed by a
\* rule on the same syscall with the same predicate and another action
\* removes the node, and the entry ends without a tree root.
C8_DifferentActionCollapses ==
    (TwoRulesOnePredicate
        /\ hist[1].rule.chain = hist[2].rule.chain
        /\ hist[1].rule.action # hist[2].rule.action)
    => (last.rc = "0" /\ Rootless(syscalls, last.rule.syscall))

\* C8, amended: on an empty database, a one-predicate rule followed by a
\* rule on the same syscall whose predicate has the same arg, stored op
\* and datum succeeds; if the second takes the opposite branch the node is
\* removed and freed and the entry ends without a tree root, whatever the
\* two actions; if it takes the same branch the tree stays the single leaf
\* with the first rule's action, its refcnt raised to 2.
C8_OppositeBranchCollapses ==
    TwoRulesOnePredicate =>
        /\ last.rc = "0"
        /\ Len(syscalls) = 1
        /\ syscalls[1].num = last.rule.syscall
        /\ IF SameBranch
           THEN LET n == syscalls[1].chains
                IN  /\ Live(heap, n)
                    /\ heap[n] =
                         [ZeroCell EXCEPT
                            !.arg = NormPreds(hist[1].rule)[1].arg,
                            !.op = NormPreds(hist[1].rule)[1].op,
                            !.datum = NormPreds(hist[1].rule)[1].datum,
                            !.action = hist[1].rule.action,
                            !.action_flag = NormPreds(hist[1].rule)[1].flag,
                            !.refcnt = 2]
           ELSE /\ syscalls[1].chains = NULL
                /\ \A n \in NodeIds : ~Live(heap, n)

\* EQ with one action, then NE on the same arg and datum with another
C8_Witness ==
    /\ TwoRulesOnePredicate
    /\ ~SameBranch
    /\ hist[1].rule.action # hist[2].rule.action
    /\ Rootless(syscalls, last.rule.syscall)

----------------------------------------------------------------------------
(* C11.  A fourth specification: malformed rules submitted to a database   *)
(* that holds a few entries.                                               *)

ArgRules ==
    {Rule(1, s, c) : s \in {1, 2}, c \in {<<>>, <<<<0, SCMP_CMP_EQ, 0>>>>}}

\* two predicates on one arg number, the number SCMP_ARG_MAX included
DupChains ==
    {<<<<a, SCMP_CMP_EQ, 0>>, <<a, op, d>>>> :
        a \in 0..SCMP_ARG_MAX, op \in {SCMP_CMP_EQ, SCMP_CMP_NE},
        d \in Datums}

\* SCMP_ARG_MAX + 1 predicates: on the arg numbers 0..SCMP_ARG_MAX, and
\* all on arg number 0
LongChains ==
    {[i \in 1..(SCMP_ARG_MAX + 1) |-> <<i - 1, SCMP_CMP_EQ, 0>>],
     [i \in 1..(SCMP_ARG_MAX + 1) |-> <<0, SCMP_CMP_EQ, 0>>]}

MalformedRules == {Rule(1, 1, c) : c \in DupChains \cup LongChains}

AddArgRule == \E r \in ArgRules : Len(hist) < 2 /\ AddCall(r, 0)

AddMalformed == \E r \in MalformedRules : AddCall(r, 0)

NextArgs == AddArgRule \/ AddMalformed

SpecArgs == Init /\ [][NextArgs]_vars

Malformed(chain_list) ==
    \/ Len(chain_list) > SCMP_ARG_MAX
    \/ \E i, j \in 1..Len(chain_list) :
          i # j /\ chain_list[i][1] = chain_list[j][1]

\* C11: an add of a rule with two predicates on one arg number, or with
\* more than SCMP_ARG_MAX predicates, returns -EINVAL, leaves the database
\* as it was and allocates nothing.
C11_MalformedRejected ==
    [][(last'.call = "db_add_syscall" /\ Malformed(last'.rule.chain)) =>
          /\ last'.rc = "-EINVAL"
          /\ last'.s_new = "none"
          /\ syscalls' = syscalls
          /\ heap' = heap]_vars

----------------------------------------------------------------------------
(* C12 *)

\* C12: when add returns, the entry and the nodes allocated for the rule
\* are in the database or freed and no node taken out of a tree is left
\* allocated; after destroy no node is left allocated.  (Calls that cut
\* entries off the list are left aside here.)
C12_NoLeaks ==
    /\ (last.call = "db_add_syscall" /\ last.rc # "UB" /\ last.lost = 0) =>
           (last.s_new # "leaked" /\ last.leaked = 0)
    /\ (last.call = "db_destroy" /\ last.rc = "0") =>
           (last.leaked = 0 /\ \A n \in NodeIds : ~Live(heap, n))

----------------------------------------------------------------------------
(* C13 *)

\* the ways db_add_syscall resolves a valid rule
ResolvingCases ==
    {"A", "B", "C", "D1", "D2a_remove", "D2a_same", "D2b_shorter",
     "D2b_graft", "D2c", "D2d_graft"}

\* C13: no add of a valid rule returns -EFAULT, and with every malloc
\* succeeding each add of a valid rule returns 0 through one of the
\* resolving cases.
C13_InternalUnreachable ==
    last.call = "db_add_syscall" =>
        /\ last.rc # "-EFAULT"
        /\ last.failAt = 0 =>
              (last.rc = "0" /\ last.path \in ResolvingCases)

----------------------------------------------------------------------------
(* The cursors of the walk, and sets of cells, for the claims on the       *)
(* cases of the merge                                                      *)

\* lines 320-416 without the updates: the pair (c_iter, ec_iter) with which
\* the loop is left; ec is NULL when the walk reads a freed node
RECURSIVE WalkEnd(_, _, _)
WalkEnd(h, c_iter, ec_iter) ==
    IF c_iter = NULL \/ ec_iter = NULL \/ ~Live(h, c_iter)
       \/ ~Live(h, ec_iter)
    THEN [c |-> c_iter, ec |-> NULL]
    ELSE IF db_chain_eq(h[c_iter], h[ec_iter])
    THEN IF db_chain_leaf(h[ec_iter]) \/ db_chain_leaf(h[c_iter])
         THEN [c |-> c_iter, ec |-> ec_iter]
         ELSE IF h[c_iter].nxt_t # NULL
         THEN IF h[ec_iter].nxt_t = NULL THEN [c |-> c_iter, ec |-> ec_iter]
              ELSE WalkEnd(h, h[c_iter].nxt_t, h[ec_iter].nxt_t)
         ELSE IF h[c_iter].nxt_f # NULL /\ h[ec_iter].nxt_f # NULL
         THEN WalkEnd(h, h[c_iter].nxt_f, h[ec_iter].nxt_f)
         ELSE [c |-> c_iter, ec |-> ec_iter]
    ELSE IF db_chain_lt(h[c_iter], h[ec_iter])
         THEN IF h[ec_iter].lvl_prv = NULL THEN [c |-> c_iter, ec |-> ec_iter]
              ELSE WalkEnd(h, c_iter, h[ec_iter].lvl_prv)
         ELSE IF h[ec_iter].lvl_nxt = NULL
              THEN [c |-> c_iter, ec |-> ec_iter]
              ELSE WalkEnd(h, c_iter, h[ec_iter].lvl_nxt)

SetOf(q) == {q[i] : i \in 1..Len(q)}

\* the cells that pointers lead to from the database, freed ones included
Reach(syscalls_, h) == SetOf(ReachOrder(syscalls_, h, 1, <<>>))

\* the cells below node n: what its nxt_t and nxt_f lead to
SubtreesOf(h, n) ==
    SetOf(Dfs(h, h[n].nxt_f, Dfs(h, h[n].nxt_t, <<>>)))

\* the other live nodes of the level that node n is in
SiblingsOf(h, n) ==
    {x \in NodeIds : Live(h, x) /\ x # n /\
        \E top \in NodeIds : Live(h, top) /\ {x, n} \subseteq LevelOf(h, top)}

\* a rule of the palette meets a tree: the heap with the rule's chain
\* built, the cursors the walk ends with, and the outcome of the add
Meets(rule) ==
    /\ Running
    /\ Len(rule.chain) > 0
    /\ HasEntry(syscalls, rule.syscall)
    /\ ChainsOf(syscalls, rule.syscall) # NULL

Built(rule) ==
    NewChain(heap, rule.action, ParseArgs(ZeroChain, rule.chain, 1).chain, 0)

Cursors(rule) ==
    LET b == Built(rule)
    IN  WalkEnd(b.h, b.chains, ChainsOf(syscalls, rule.syscall))

Outcome(rule) ==
    db_add_syscall(syscalls, heap, rule.action, rule.syscall, rule.chain, 0)

\* the walk ends on equal nodes
EndsOnMatch(rule) ==
    LET w == Cursors(rule)
        h == Built(rule).h
    IN  w.ec # NULL /\ db_chain_eq(h[w.c], h[w.ec])

----------------------------------------------------------------------------
(* C14 *)

\* the walk for the rule ends on two leaves of opposite action_flag
IsD2aRemoval(rule) ==
    /\ Meets(rule)
    /\ EndsOnMatch(rule)
    /\ LET w == Cursors(rule)
           h == Built(rule).h
       IN  /\ db_chain_leaf(h[w.ec]) /\ db_chain_leaf(h[w.c])
           /\ h[w.ec].action_flag # h[w.c].action_flag

\* C14: when the walk matches an existing leaf ec with a new leaf of the
\* opposite action-branch, the add returns with ec no longer reachable
\* from the database, and with every other node of ec's level and all
\* that hangs below those nodes still allocated and reachable.
C14_RemovalKeepsSiblings ==
    \A rule \in Rules :
        IsD2aRemoval(rule) =>
            LET ec == Cursors(rule).ec
                r  == Outcome(rule)
            IN  /\ r.ub = "" /\ r.rc = "0"
                /\ ec \notin Reach(r.syscalls, r.h)
                /\ \A sib \in SiblingsOf(heap, ec) :
                      \A n \in {sib} \cup SubtreesOf(heap, sib) :
                          Live(heap, n) =>
                              (Live(r.h, n) /\ n \in Reach(r.syscalls, r.h))

----------------------------------------------------------------------------
(* C15 *)

\* the walk for the rule ends on an existing leaf and a new interior node
IsD2b(rule) ==
    /\ Meets(rule)
    /\ EndsOnMatch(rule)
    /\ LET w == Cursors(rule)
           h == Built(rule).h
       IN  db_chain_leaf(h[w.ec]) /\ ~db_chain_leaf(h[w.c])

\* the child of node n on the side flag
ChildOn(h, n, flag) == IF flag # 0 THEN h[n].nxt_t ELSE h[n].nxt_f

\* C15: when the walk matches an existing leaf ec with a new interior
\* node c, the add returns 0 and, if c continues on ec's action-branch
\* side, the tree keeps its shape and contents; otherwise c's child is
\* afterwards the child of ec on the other side, and every node that was
\* below ec before is still allocated and reachable.
C15_GraftKeepsSubtrees ==
    \A rule \in Rules :
        IsD2b(rule) =>
            LET w    == Cursors(rule)
                h    == Built(rule).h
                r    == Outcome(rule)
                flag == h[w.ec].action_flag
                s    == rule.syscall
            IN  /\ r.ub = "" /\ r.rc = "0"
                /\ IF ChildOn(h, w.c, flag) # NULL
                   THEN ShapeOf(r.h, ChainsOf(r.syscalls, s))
                            = ShapeOf(heap, ChainsOf(syscalls, s))
                   ELSE /\ Live(r.h, w.ec)
                        /\ ChildOn(r.h, w.ec, 1 - flag)
                               = ChildOn(h, w.c, 1 - flag)
                        /\ Live(r.h, ChildOn(h, w.c, 1 - flag))
                        /\ \A n \in SubtreesOf(heap, w.ec) :
                              Live(heap, n) =>
                                  (Live(r.h, n)
                                     /\ n \in Reach(r.syscalls, r.h))

----------------------------------------------------------------------------
(* C16 *)

\* the walk for the rule ends on an existing interior node and a new leaf
IsD2c(rule) ==
    /\ Meets(rule)
    /\ EndsOnMatch(rule)
    /\ LET w == Cursors(rule)
           h == Built(rule).h
       IN  ~db_chain_leaf(h[w.ec]) /\ db_chain_leaf(h[w.c])

\* the cells that pointer n leads to
Below(h, n) == SetOf(Dfs(h, n, <<>>))

\* C16: when the walk matches an existing interior node ec with a new
\* leaf c, the add returns 0; afterwards ec carries the rule's action and
\* c's action-branch, has no child on that side, the nodes that were
\* below it on that side are freed, and its child on the other side, its
\* level links and the nodes of its level with all below them are as
\* before.
C16_ShorteningPromotes ==
    \A rule \in Rules :
        IsD2c(rule) =>
            LET w    == Cursors(rule)
                h    == Built(rule).h
                r    == Outcome(rule)
                ec   == w.ec
                flag == h[w.c].action_flag
            IN  /\ r.ub = "" /\ r.rc = "0"
                /\ Live(r.h, ec)
                /\ r.h[ec].action = rule.action
                /\ r.h[ec].action_flag = flag
                /\ ChildOn(r.h, ec, flag) = NULL
                /\ \A n \in Below(heap, ChildOn(heap, ec, flag)) :
                      ~Live(r.h, n)
                /\ ChildOn(r.h, ec, 1 - flag) = ChildOn(heap, ec, 1 - flag)
                /\ r.h[ec].lvl_prv = heap[ec].lvl_prv
                /\ r.h[ec].lvl_nxt = heap[ec].lvl_nxt
                /\ \A n \in Below(heap, ChildOn(heap, ec, 1 - flag)) :
                      r.h[n] = heap[n]
                /\ \A sib \in SiblingsOf(heap, ec) :
                      \A n \in {sib} \cup SubtreesOf(heap, sib) :
                          r.h[n] = heap[n]

\* an interior node with children on both sides, left there by two
\* two-predicate rules, was made a leaf by a one-predicate rule
C16_Witness ==
    /\ AddedOk /\ last.path = "D2c"
    /\ Len(hist) = 3
    /\ Len(last.rule.chain) = 1
    /\ \A k \in 1..2 :
          /\ hist[k].rc = "0"
          /\ hist[k].rule.syscall = last.rule.syscall
          /\ Len(hist[k].rule.chain) = 2
          /\ NormPreds(hist[k].rule)[1].flag = 2 - k
          /\ NormPreds(hist[k].rule)[1].arg = NormPreds(last.rule)[1].arg
          /\ NormPreds(hist[k].rule)[1].op = NormPreds(last.rule)[1].op
          /\ NormPreds(hist[k].rule)[1].datum = NormPreds(last.rule)[1].datum
    /\ LET n == ChainsOf(syscalls, last.rule.syscall)
       IN  /\ Live(heap, n)
           /\ heap[n].action = last.rule.action
           /\ heap[n].action_flag = NormPreds(last.rule)[1].flag
           /\ ChildOn(heap, n, heap[n].action_flag) = NULL
           /\ ChildOn(heap, n, 1 - heap[n].action_flag) # NULL

----------------------------------------------------------------------------
(* C17 *)

\* the faults of reading or releasing memory that was released before
FreedFaults == {"use-after-free", "double-free"}

\* C17: no pointer followed from the database leads to a released node, no
\* add reads or releases a released node, and destroy releases the nodes of
\* the database without touching a released one.
C17_MemorySafe ==
    /\ \A n \in Reach(syscalls, heap) : heap[n].st # "freed"
    /\ last.rc = "UB" => last.path \notin FreedFaults

----------------------------------------------------------------------------
(* C18 *)

\* C18: among the nodes of the database, x.lvl_nxt = y exactly when
\* y.lvl_prv = x.
C18_LevelDoublyLinked ==
    \A x, y \in NodeIds :
        (Live(heap, x) /\ Live(heap, y)) =>
            (heap[x].lvl_nxt = y <=> heap[y].lvl_prv = x)

----------------------------------------------------------------------------
(* C19 *)

\* every add so far returned 0
AllAddsOk ==
    /\ last.call = "db_add_syscall"
    /\ \A k \in 1..Len(hist) : hist[k].rc = "0"

\* the order of the key (arg, op)
KeyLess(x, y) == x.arg < y.arg \/ (x.arg = y.arg /\ x.op < y.op)

SameKey(x, y) == x.arg = y.arg /\ x.op = y.op

\* the live nodes of a level on the lvl_prv side and on the lvl_nxt side of
\* node n
PrvSide(h, n) == LevelOf(h, h[n].lvl_prv)

NxtSide(h, n) == LevelOf(h, h[n].lvl_nxt)

\* C19: after successful adds, on every level the nodes on the lvl_prv side
\* of a node have smaller keys (arg, op), the nodes on its lvl_nxt side have
\* larger keys, and no two nodes of a level have the same key (arg, op).
C19_LevelStrictlyOrdered ==
    AllAddsOk =>
        \A n \in NodeIds : Live(heap, n) =>
            /\ \A m \in PrvSide(heap, n) : KeyLess(heap[m], heap[n])
            /\ \A m \in NxtSide(heap, n) : KeyLess(heap[n], heap[m])
            /\ \A m \in SiblingsOf(heap, n) : ~SameKey(heap[m], heap[n])

\* C19, as the code has it: after successful adds, on every level the
\* nodes on the lvl_prv side of a node have smaller keys (arg, op), the
\* nodes on its lvl_nxt side have keys that are not smaller, and no two nodes
\* of a level have the same (arg, op, datum).
C19_LevelOrdered ==
    AllAddsOk =>
        \A n \in NodeIds : Live(heap, n) =>
            /\ \A m \in PrvSide(heap, n) : KeyLess(heap[m], heap[n])
            /\ \A m \in NxtSide(heap, n) : ~KeyLess(heap[m], heap[n])
            /\ \A m \in SiblingsOf(heap, n) :
                  ~(SameKey(heap[m], heap[n]) /\ heap[m].datum = heap[n].datum)

\* a level with nodes on the lvl_prv side of one node and, on the lvl_nxt
\* side of a node, a node with the same (arg, op) and a different datum
C19_Witness ==
    /\ AllAddsOk
    /\ \E n \in NodeIds :
          /\ Live(heap, n)
          /\ PrvSide(heap, n) # {}
          /\ \E x \in LevelOf(heap, n) : \E y \in NxtSide(heap, x) :
                SameKey(heap[y], heap[x]) /\ heap[y].datum # heap[x].datum

----------------------------------------------------------------------------
(* C20 *)

\* C20: after successful adds, a node with an action has no child on the
\* side of its action_flag: nxt_t is NULL when action_flag is set, nxt_f is
\* NULL when it is clear; so it has at most one child.
C20_LeafDiscipline ==
    AllAddsOk =>
        \A n \in NodeIds :
            (Live(heap, n) /\ db_chain_leaf(heap[n])) =>
                /\ ChildOn(heap, n, heap[n].action_flag) = NULL
                /\ heap[n].nxt_t = NULL \/ heap[n].nxt_f = NULL

\* the continuation of a longer rule was put below a leaf, on the side that
\* is not the side of its action
C20_Witness ==
    /\ AllAddsOk /\ last.path = "D2b_graft"
    /\ \E n \in NodeIds :
          /\ Live(heap, n) /\ db_chain_leaf(heap[n])
          /\ ChildOn(heap, n, heap[n].action_flag) = NULL
          /\ ChildOn(heap, n, 1 - heap[n].action_flag) # NULL

====
